---- MODULE Spec2Model ----
(***************************************************************************)
(* Model of the voice-analysis pipeline: the decode fallback chain and the *)
(* manual RIFF/WAVE parser (audio_converter.py), the feature vector        *)
(* assembly (feature_extractor.py) and the /predict request handler        *)
(* (app.py).                                                               *)
(*                                                                         *)
(* Bytes are integers 0..255, a file is a sequence of bytes.  A decoded    *)
(* 16-bit sample is kept as its integer value; the division by 32768 and   *)
(* the per-frame mean over channels are kept as the integer numerator      *)
(* (the sum over the channels of a frame).                                 *)
(***************************************************************************)
EXTENDS Integers, Sequences, FiniteSets, TLC

VARIABLES wavInput, file, ld, fx, fs, req, svc, pp, pt

loadVars == <<wavInput, file, ld>>
predVars == <<fs, req, svc>>
dspVars == <<pp, pt>>

\* ------------------------------------------------------------------------
\* Bounds of the model
\* ------------------------------------------------------------------------
MaxChunks == 3

\* ------------------------------------------------------------------------
\* Byte-level helpers (what file.read, np.frombuffer and slicing do)
\* ------------------------------------------------------------------------
Min(a, b) == IF a < b THEN a ELSE b

\* f.read(n) at cursor pos: at most n bytes, fewer at end of file, none past it
FRead(buf, pos, n) == SubSeq(buf, pos + 1, Min(pos + n, Len(buf)))

\* little-endian unsigned value of a byte string (np.frombuffer(...)[0])
RECURSIVE LittleEndian(_)
LittleEndian(bs) ==
    IF bs = <<>> THEN 0 ELSE Head(bs) + 256 * LittleEndian(Tail(bs))

\* np.frombuffer(audio_data, dtype=np.int16): signed little-endian samples
Int16Samples(bs) ==
    [i \in 1..(Len(bs) \div 2) |->
        LET u == bs[2 * i - 1] + 256 * bs[2 * i]
        IN  IF u >= 32768 THEN u - 65536 ELSE u]

RECURSIVE SumSeq(_)
SumSeq(s) == IF s = <<>> THEN 0 ELSE Head(s) + SumSeq(Tail(s))

\* audio.reshape(-1, num_channels) followed by np.mean(axis=1), as frame sums
MonoFrames(samples, nc) ==
    [i \in 1..(Len(samples) \div nc) |->
        SumSeq(SubSeq(samples, (i - 1) * nc + 1, i * nc))]

\* ------------------------------------------------------------------------
\* The byte strings the parser compares against
\* ------------------------------------------------------------------------
RIFF == <<82, 73, 70, 70>>
WAVE == <<87, 65, 86, 69>>
FMT  == <<102, 109, 116, 32>>
DATA == <<100, 97, 116, 97>>
LIST == <<76, 73, 83, 84>>
RIFX == <<82, 73, 70, 88>>
AVI  == <<65, 86, 73, 32>>

\* ------------------------------------------------------------------------
\* Input files: a description of a RIFF container and its serialisation
\* ------------------------------------------------------------------------
RECURSIVE ToLE(_, _)
ToLE(v, n) == IF n = 0 THEN <<>> ELSE <<v % 256>> \o ToLE(v \div 256, n - 1)

\* payload of a data chunk: 16-bit samples 1, -1, 2, -2, ... in file order
PcmBytes(n) ==
    [i \in 1..n |->
        LET k == (i + 1) \div 2
            v == IF k % 2 = 1 THEN (k + 1) \div 2 ELSE 65536 - (k \div 2)
        IN  IF i % 2 = 1 THEN v % 256 ELSE v \div 256]

\* payload of a fmt chunk: format tag, channels, sample rate, byte rate,
\* block align, bits per sample
FmtPayload(nc, rate) ==
    ToLE(1, 2) \o ToLE(nc, 2) \o ToLE(rate, 4) \o ToLE(rate * nc * 2, 4)
        \o ToLE(nc * 2, 2) \o ToLE(16, 2)

ChunkBytes(c) ==
    CASE c.tag = "fmt"  -> FMT \o ToLE(16, 4) \o FmtPayload(c.nc, c.rate)
      [] c.tag = "data" -> DATA \o ToLE(c.size, 4) \o PcmBytes(c.size)
      [] OTHER          -> LIST \o ToLE(c.size, 4) \o [i \in 1..c.size |-> 7]

RECURSIVE ChunksBytes(_)
ChunksBytes(cs) ==
    IF cs = <<>> THEN <<>> ELSE ChunkBytes(Head(cs)) \o ChunksBytes(Tail(cs))

HeaderBytes(hdr, bodyLen) ==
    (IF hdr = "noriff" THEN RIFX ELSE RIFF) \o ToLE(4 + bodyLen, 4)
        \o (IF hdr = "nowave" THEN AVI ELSE WAVE)

Serialize(d) ==
    LET body == ChunksBytes(d.chunks)
    IN  HeaderBytes(d.hdr, Len(body)) \o body

ChunkKinds ==
    { [tag |-> "fmt", nc |-> 1, rate |-> 8000, size |-> 16],
      [tag |-> "fmt", nc |-> 2, rate |-> 44100, size |-> 16],
      [tag |-> "LIST", nc |-> 0, rate |-> 0, size |-> 0],
      [tag |-> "LIST", nc |-> 0, rate |-> 0, size |-> 3],
      [tag |-> "data", nc |-> 0, rate |-> 0, size |-> 0],
      [tag |-> "data", nc |-> 0, rate |-> 0, size |-> 8] }

ChunkSeqs == UNION { [1..n -> ChunkKinds] : n \in 0..MaxChunks }

WavDescs == [hdr : {"ok", "noriff", "nowave"}, chunks : ChunkSeqs]

\* ------------------------------------------------------------------------
\* Manual WAV parser (load_audio_safe, "last resort" block)
\* ws = [pc, pos, num_channels, sample_rate, body, chunk_size, audio]:
\* body and chunk_size are the payload offset and declared size of the chunk
\* read last
\* ------------------------------------------------------------------------
WavStart ==
    [pc |-> "riff", pos |-> 0, num_channels |-> 1, sample_rate |-> 16000,
     body |-> 0, chunk_size |-> 0, audio |-> <<>>]

WavFail(ws) == [ws EXCEPT !.pc = "failed"]

\* riff = f.read(4); if riff != b'RIFF': raise
ReadRiff(buf, ws) ==
    IF FRead(buf, ws.pos, 4) # RIFF
    THEN WavFail(ws)
    ELSE [ws EXCEPT !.pc = "size", !.pos = ws.pos + 4]

\* file_size_header = np.frombuffer(f.read(4), dtype=np.uint32)[0]
ReadSizeHeader(buf, ws) ==
    LET b == FRead(buf, ws.pos, 4)
    IN  IF Len(b) < 4
        THEN WavFail(ws)
        ELSE [ws EXCEPT !.pc = "wave", !.pos = ws.pos + 4]

\* wave = f.read(4); if wave != b'WAVE': raise
ReadWave(buf, ws) ==
    IF FRead(buf, ws.pos, 4) # WAVE
    THEN WavFail(ws)
    ELSE [ws EXCEPT !.pc = "chunk", !.pos = ws.pos + 4]

\* chunk_id == b'fmt ': channel count at [2:4], sample rate at [4:8]
ParseFmt(buf, ws, body, chunk_size) ==
    LET fmt_data == FRead(buf, body, chunk_size)
    IN  IF Len(fmt_data) < 8
        THEN WavFail(ws)
        ELSE [ws EXCEPT !.pos = body + Len(fmt_data),
                        !.num_channels = LittleEndian(SubSeq(fmt_data, 3, 4)),
                        !.sample_rate = LittleEndian(SubSeq(fmt_data, 5, 8))]

\* chunk_id == b'data': 16-bit PCM, mono mix when num_channels > 1, return
ParseData(buf, ws, body, chunk_size) ==
    LET audio_data == FRead(buf, body, chunk_size)
        samples    == Int16Samples(audio_data)
    IN  IF Len(audio_data) % 2 # 0
        THEN WavFail(ws)
        ELSE IF ws.num_channels > 1
        THEN IF Len(samples) % ws.num_channels # 0
             THEN WavFail(ws)
             ELSE [ws EXCEPT !.pc = "returned",
                             !.pos = body + Len(audio_data),
                             !.audio = MonoFrames(samples, ws.num_channels)]
        ELSE [ws EXCEPT !.pc = "returned",
                        !.pos = body + Len(audio_data),
                        !.audio = samples]

SkipChunk_FromHeader(ws, body, chunk_size) ==
    [ws EXCEPT !.pos = body + chunk_size - 8]

SkipChunk_Padded(ws, body, chunk_size) ==
    [ws EXCEPT !.pos = body + chunk_size + (chunk_size % 2)]

\* any other chunk: f.seek(chunk_size, 1)
SkipChunk(ws, body, chunk_size) == [ws EXCEPT !.pos = body + chunk_size]

\* one iteration of the "while True" chunk loop
ReadChunk(buf, ws) ==
    LET chunk_id == FRead(buf, ws.pos, 4)
        size_pos == ws.pos + Len(chunk_id)
        size_raw == FRead(buf, size_pos, 4)
        body     == size_pos + Len(size_raw)
        chunk_size == LittleEndian(size_raw)
        w == [ws EXCEPT !.body = body, !.chunk_size = chunk_size]
    IN  IF Len(chunk_id) < 4 THEN WavFail(ws)
        ELSE IF Len(size_raw) < 4 THEN WavFail(ws)
        ELSE IF chunk_id = FMT THEN ParseFmt(buf, w, body, chunk_size)
        ELSE IF chunk_id = DATA THEN ParseData(buf, w, body, chunk_size)
        ELSE SkipChunk(w, body, chunk_size)

WavStep(buf, ws) ==
    CASE ws.pc = "riff"  -> ReadRiff(buf, ws)
      [] ws.pc = "size"  -> ReadSizeHeader(buf, ws)
      [] ws.pc = "wave"  -> ReadWave(buf, ws)
      [] ws.pc = "chunk" -> ReadChunk(buf, ws)
      [] OTHER           -> ws

\* ------------------------------------------------------------------------
\* load_audio_safe(file_path, sr=None, duration)
\* a file is NoFile or [bytes, libCan, pcm]: libCan is the set of library
\* decoders that accept the content, pcm = [len, sr] is what they decode
\* ld = [pc, duration, file_size, tried, ws, result, error]
\* ------------------------------------------------------------------------
NoFile == [exists |-> FALSE]
NoWav == [desc |-> [hdr |-> "none", chunks |-> <<>>], cut |-> 0]
NoPcm == [len |-> 0, sr |-> 0]

MkFile(bytes, libCan, pcm) ==
    [exists |-> TRUE, bytes |-> bytes, libCan |-> libCan, pcm |-> pcm]
NoDuration == 0
NoResult == [strategy |-> "none", len |-> 0, sr |-> 0]
Strategies == <<"librosa", "soundfile", "scipy", "manual">>
Libs == {"librosa", "soundfile", "scipy"}

LoadStart(duration) ==
    [pc |-> "getsize", duration |-> duration, file_size |-> 0,
     tried |-> <<>>, ws |-> WavStart, result |-> NoResult, error |-> "none"]

GetSize_RejectsEmpty(f, st) ==
    IF f = NoFile
    THEN [st EXCEPT !.pc = "raised", !.error = "OSError"]
    ELSE IF Len(f.bytes) = 0
    THEN [st EXCEPT !.pc = "raised", !.error = "aggregate"]
    ELSE [st EXCEPT !.pc = "librosa", !.file_size = Len(f.bytes)]

\* file_size = os.path.getsize(file_path), outside every try block
GetSize(f, st) ==
    IF f = NoFile
    THEN [st EXCEPT !.pc = "raised", !.error = "OSError"]
    ELSE [st EXCEPT !.pc = "librosa", !.file_size = Len(f.bytes)]

Decodes(f, lib) == f # NoFile /\ lib \in f.libCan

TryLibrosa_SkipsSoundfile(f, st) ==
    LET t == Append(st.tried, "librosa")
    IN  IF Decodes(f, "librosa")
        THEN [st EXCEPT !.pc = "returned", !.tried = t,
                 !.result = [strategy |-> "librosa",
                             len |-> IF st.duration = NoDuration
                                     THEN f.pcm.len
                                     ELSE Min(f.pcm.len, st.duration * f.pcm.sr),
                             sr |-> f.pcm.sr]]
        ELSE [st EXCEPT !.pc = "scipy", !.tried = t]

\* librosa.load(file_path, sr=sr, duration=duration)
TryLibrosa(f, st) ==
    LET t == Append(st.tried, "librosa")
    IN  IF Decodes(f, "librosa")
        THEN [st EXCEPT !.pc = "returned", !.tried = t,
                 !.result = [strategy |-> "librosa",
                             len |-> IF st.duration = NoDuration
                                     THEN f.pcm.len
                                     ELSE Min(f.pcm.len, st.duration * f.pcm.sr),
                             sr |-> f.pcm.sr]]
        ELSE [st EXCEPT !.pc = "soundfile", !.tried = t]

\* sf.read(file_path)
TrySoundfile(f, st) ==
    LET t == Append(st.tried, "soundfile")
    IN  IF Decodes(f, "soundfile")
        THEN [st EXCEPT !.pc = "returned", !.tried = t,
                 !.result = [strategy |-> "soundfile", len |-> f.pcm.len,
                             sr |-> f.pcm.sr]]
        ELSE [st EXCEPT !.pc = "scipy", !.tried = t]

\* scipy_wavfile.read(file_path)
TryScipy(f, st) ==
    LET t == Append(st.tried, "scipy")
    IN  IF Decodes(f, "scipy")
        THEN [st EXCEPT !.pc = "returned", !.tried = t,
                 !.result = [strategy |-> "scipy", len |-> f.pcm.len,
                             sr |-> f.pcm.sr]]
        ELSE [st EXCEPT !.pc = "manual", !.tried = t]

\* with open(file_path, 'rb') as f
OpenManual(f, st) ==
    LET t == Append(st.tried, "manual")
    IN  IF f = NoFile
        THEN [st EXCEPT !.pc = "raise", !.tried = t]
        ELSE [st EXCEPT !.pc = "parse", !.tried = t, !.ws = WavStart]

\* one step of the manual parser inside its try block
ParseManual(f, st) ==
    LET w == WavStep(f.bytes, st.ws)
    IN  CASE w.pc = "returned" ->
               [st EXCEPT !.pc = "returned", !.ws = w,
                    !.result = [strategy |-> "manual", len |-> Len(w.audio),
                                sr |-> w.sample_rate]]
          [] w.pc = "failed" -> [st EXCEPT !.pc = "raise", !.ws = w]
          [] OTHER -> [st EXCEPT !.ws = w]

\* raise Exception("Could not load audio ... File size: ...")
RaiseAggregate(st) == [st EXCEPT !.pc = "raised", !.error = "aggregate"]

LoadStep(f, st) ==
    CASE st.pc = "getsize"   -> GetSize(f, st)
      [] st.pc = "librosa"   -> TryLibrosa(f, st)
      [] st.pc = "soundfile" -> TrySoundfile(f, st)
      [] st.pc = "scipy"     -> TryScipy(f, st)
      [] st.pc = "manual"    -> OpenManual(f, st)
      [] st.pc = "parse"     -> ParseManual(f, st)
      [] st.pc = "raise"     -> RaiseAggregate(st)
      [] OTHER               -> st

LoadDone(st) == st.pc \in {"returned", "raised"}

\* the whole call, for callers that run it to completion
RECURSIVE RunLoad(_, _)
RunLoad(f, st) == IF LoadDone(st) THEN st ELSE RunLoad(f, LoadStep(f, st))

\* ------------------------------------------------------------------------
\* extract_all_features(audio, sr)
\* A feature value is 0 (exactly 0.0) or 1 (any other float).  Each
\* sub-extractor either computes its value(s) or raises inside its own try
\* block and returns its zero default.
\* fx = [pc, raised, pitch, jitter, shimmer, hnr, mfcc_features,
\*       spectral_features, statistical_features, feature_vector]
\* ------------------------------------------------------------------------
N_MFCC == 13
NUM_FEATURES == 34

FeatureValues == {0, 1}

SpectralKeys ==
    << "spectral_centroid_mean", "spectral_centroid_std",
       "spectral_rolloff_mean", "spectral_rolloff_std",
       "spectral_bandwidth_mean", "spectral_bandwidth_std",
       "zero_crossing_rate_mean", "zero_crossing_rate_std" >>

StatisticalKeys ==
    << "mean", "std", "var", "median", "min", "max", "range", "skewness",
       "kurtosis" >>

Range(s) == { s[i] : i \in DOMAIN s }

\* outcome of one sub-extractor's try block: ok = FALSE when it raised
Outcomes == [ok : BOOLEAN, v : FeatureValues]

\* extract_pitch, extract_jitter, extract_shimmer, extract_hnr
ScalarFeature(o) == IF o.ok THEN o.v ELSE 0

MfccFallback_Short(n_mfcc) == [i \in 1..(n_mfcc - 1) |-> 0]

\* except: return [0.0] * n_mfcc
MfccFallback(n_mfcc) == [i \in 1..n_mfcc |-> 0]

\* np.mean(mfccs, axis=1).tolist(): one value per coefficient
ExtractMfccFeatures(o, n_mfcc) ==
    IF o.ok THEN [i \in 1..n_mfcc |-> o.v]
    ELSE MfccFallback(n_mfcc)

\* extract_spectral_features: a dict with the eight spectral keys
ExtractSpectralFeatures(o) ==
    [k \in Range(SpectralKeys) |-> IF o.ok THEN o.v ELSE 0]

\* extract_statistical_features: a dict with the nine statistics
ExtractStatisticalFeatures(o) ==
    [k \in Range(StatisticalKeys) |-> IF o.ok THEN o.v ELSE 0]

\* feature_vector = [pitch, jitter, shimmer, hnr, *mfcc_features, ...]
AssembleVector(x) ==
    <<x.pitch, x.jitter, x.shimmer, x.hnr>> \o x.mfcc_features
        \o [i \in 1..Len(SpectralKeys) |-> x.spectral_features[SpectralKeys[i]]]
        \o [i \in 1..Len(StatisticalKeys) |->
               x.statistical_features[StatisticalKeys[i]]]

\* except Exception: return np.zeros(34)
ZeroVector == [i \in 1..NUM_FEATURES |-> 0]

FxIdle ==
    [pc |-> "idle", raised |-> {}, pitch |-> 0, jitter |-> 0, shimmer |-> 0,
     hnr |-> 0, mfcc_features |-> <<>>, spectral_features |-> <<>>,
     statistical_features |-> <<>>, feature_vector |-> <<>>]

FxStart == [FxIdle EXCEPT !.pc = "pitch"]

Note(x, name, o) == IF o.ok THEN x.raised ELSE x.raised \cup {name}

\* ------------------------------------------------------------------------
\* preprocess_audio(audio, sr, target_sr) on a signal [len, sr]
\* ------------------------------------------------------------------------
TARGET_SR == 22050

CeilDiv(a, b) == (a + b - 1) \div b

\* resample_audio: librosa.resample, or the except branch when it raises
ResampleAudio(a, target_sr, ok) ==
    IF a.sr = target_sr THEN [len |-> a.len, sr |-> target_sr]
    ELSE IF ok /\ a.sr > 0
    THEN [len |-> CeilDiv(a.len * target_sr, a.sr), sr |-> target_sr]
    ELSE a

\* trim_silence keeps a contiguous part of the signal (all of it on failure)
TrimLengths(len) == {len, len \div 2, 0}

PadToMinimum_OneShort(len, target_sr) ==
    IF len < target_sr \div 2 - 1 THEN target_sr \div 2 - 1 ELSE len

\* min_length = int(target_sr * 0.5); np.pad when shorter
PadToMinimum(len, target_sr) ==
    IF len < target_sr \div 2 THEN target_sr \div 2 ELSE len

PreprocessOutcomes(a, target_sr) ==
    UNION { { [len |-> PadToMinimum(t, target_sr), sr |-> rs.sr] :
                t \in TrimLengths(rs.len) } :
            rs \in { ResampleAudio(a, target_sr, ok) : ok \in BOOLEAN } }

\* ------------------------------------------------------------------------
\* preprocess_audio, stage by stage
\* pp = [pc, target_sr, input, audio, peak, peak_in, len_resampled, len_trimmed, pad,
\*       ran, raised]: peak is "zero" (silent), "unit" (max |x| = 1) or
\* "other"; ran lists the stages executed, raised the stages whose try
\* block raised, pad the number of zeros appended
\* ------------------------------------------------------------------------
Stages == <<"resample", "normalize", "trim", "pad">>

PpStart(a, peak, target_sr) ==
    [pc |-> "resample", target_sr |-> target_sr, input |-> a, audio |-> a,
     peak |-> peak, peak_in |-> peak, len_resampled |-> 0, len_trimmed |-> 0, pad |-> 0,
     ran |-> <<>>, raised |-> {}]

PpIdle == [PpStart(NoPcm, "zero", TARGET_SR) EXCEPT !.pc = "idle"]

\* audio, sr = resample_audio(audio, sr, target_sr)
PpResample(p, ok) ==
    LET a == ResampleAudio(p.audio, p.target_sr, ok)
        resampled == p.audio.sr = p.target_sr \/ (ok /\ p.audio.sr > 0)
    IN  [p EXCEPT !.pc = "normalize", !.audio = a, !.len_resampled = a.len,
                  !.ran = Append(p.ran, "resample"),
                  !.raised = IF resampled THEN p.raised
                             ELSE p.raised \cup {"resample"}]

\* audio = normalize_audio(audio)
PpNormalize(p, ok) ==
    [p EXCEPT !.pc = "trim",
              !.peak = IF ok /\ p.peak = "other" THEN "unit" ELSE p.peak,
              !.ran = Append(p.ran, "normalize"),
              !.raised = IF ok THEN p.raised ELSE p.raised \cup {"normalize"}]

PpTrim_NoExcept(p, ok, t) ==
    IF ok
    THEN [p EXCEPT !.pc = "pad", !.audio.len = t, !.len_trimmed = t,
                   !.ran = Append(p.ran, "trim")]
    ELSE [p EXCEPT !.pc = "done", !.len_trimmed = p.audio.len,
                   !.ran = Append(p.ran, "trim"),
                   !.raised = p.raised \cup {"trim"}]

\* audio = trim_silence(audio, sr): t samples are kept when it succeeds
PpTrim(p, ok, t) ==
    LET n == IF ok THEN t ELSE p.audio.len
    IN  [p EXCEPT !.pc = "pad", !.audio.len = n, !.len_trimmed = n,
                  !.ran = Append(p.ran, "trim"),
                  !.raised = IF ok THEN p.raised ELSE p.raised \cup {"trim"}]

\* np.pad(audio, (0, min_length - len(audio))) when shorter; return audio, sr
PpPad(p) ==
    LET n == PadToMinimum(p.audio.len, p.target_sr)
    IN  [p EXCEPT !.pc = "done", !.audio.len = n, !.pad = n - p.audio.len,
                  !.ran = Append(p.ran, "pad")]

\* ------------------------------------------------------------------------
\* Idle values of the signal-processing variables
\* ------------------------------------------------------------------------
\* ------------------------------------------------------------------------
\* _extract_f0_cached, extract_pitch, extract_jitter
\* Frequencies are kept in millihertz (floor), periods in microseconds and
\* jitter in thousandths; the 1e-8 guards of the divisions are left out.
\* pt = [pc, n, sr, nframes, i, log, f0_values, f0, pitch, jitter]: log holds
\* what the peak search found in each frame, f0 is the array returned by
\* _extract_f0_cached
\* ------------------------------------------------------------------------
FRAME_LENGTH == 2048
HOP_LENGTH == 512
MaxFrames == 3
NaN == -1

\* librosa.util.frame: number of frames, none when the signal is too short
FrameCount(n) ==
    IF n < FRAME_LENGTH THEN 0 ELSE 1 + (n - FRAME_LENGTH) \div HOP_LENGTH

\* autocorr[int(sr/400):int(sr/50)] of the 2048 non-negative lags
LagLow(sr) == sr \div 400
LagSpan(sr) == Min(sr \div 50, FRAME_LENGTH) - LagLow(sr)

\* find_peaks: indices of interior local maxima of the slice (three of them
\* stand for the range), no peak, or an exception inside the inner try
PeakIndexes(sr) ==
    { k \in {1, LagSpan(sr) \div 2, LagSpan(sr) - 2} :
        k >= 1 /\ k <= LagSpan(sr) - 2 }

FrameOutcomes(sr) ==
    { [kind |-> "raise", idx |-> 0], [kind |-> "nopeak", idx |-> 0] } \cup
    { [kind |-> "peak", idx |-> k] : k \in PeakIndexes(sr) }

\* f0 = sr / (peaks[0] + int(sr/400))
F0mHz(sr, idx) == (sr * 1000) \div (idx + LagLow(sr))

\* if 50 < f0 < 400: f0_values.append(f0)
FrameF0(sr, o) ==
    LET lag == o.idx + LagLow(sr)
    IN  IF o.kind = "peak" /\ 50 * lag < sr /\ sr < 400 * lag
        THEN <<F0mHz(sr, o.idx)>>
        ELSE <<>>

\* return np.array(f0_values) if f0_values else np.array([0.0])
F0Result(f0_values) == IF f0_values # <<>> THEN f0_values ELSE <<0>>

\* float(np.mean(f0_values)) if len(f0_values) > 0 else 0.0
PitchOf(f0) == IF Len(f0) > 0 THEN SumSeq(f0) \div Len(f0) ELSE 0

Abs(x) == IF x < 0 THEN -x ELSE x

Periods(f0) == [i \in 1..Len(f0) |-> 1000000000 \div f0[i]]

PeriodDiffs(f0) ==
    [i \in 1..(Len(f0) - 1) |-> Abs(Periods(f0)[i + 1] - Periods(f0)[i])]

\* np.mean(period_diffs) / np.mean(periods); the mean of no value is nan
JitterRatio(f0) ==
    IF Len(f0) < 2 THEN NaN
    ELSE ((SumSeq(PeriodDiffs(f0)) \div (Len(f0) - 1)) * 1000)
            \div (SumSeq(Periods(f0)) \div Len(f0))

JitterOf_NoGuard(f0) == JitterRatio(f0)

\* if len(f0_values) < 2: return 0.0
JitterOf(f0) == IF Len(f0) < 2 THEN 0 ELSE JitterRatio(f0)

PtStart(n, sr) ==
    [pc |-> "frame", n |-> n, sr |-> sr, nframes |-> 0, i |-> 0,
     log |-> <<>>, f0_values |-> <<>>, f0 |-> <<>>, pitch |-> 0, jitter |-> 0]

PtIdle == [PtStart(0, 0) EXCEPT !.pc = "idle"]

DspIdle == pp = PpIdle /\ pt = PtIdle

\* ------------------------------------------------------------------------
\* predict(): the /predict request handler
\* fs maps a file name of the working directory to its content; a stored
\* file carries the request that wrote it.  svc is the loaded model/scaler.
\* req[r] = [pc, ext, upload, temp_path, wav_path, conv, audio, decoded_len,
\*           decoded_sr, features, called, touched, failed, error, status]
\* ------------------------------------------------------------------------
Requests == {1, 2}
NoPath == "None"
FileNames == {"temp_audio.wav", "temp_audio.webm"}
Extensions == {"wav", "webm"}

\* temp_path = f'temp_audio.{file_ext}'
TempPath(ext) == IF ext = "wav" THEN "temp_audio.wav" ELSE "temp_audio.webm"

\* output_path = input_path.rsplit('.', 1)[0] + '.wav'
WavPathOf(path) == "temp_audio.wav"

Stored(c, r) ==
    [exists |-> TRUE, bytes |-> c.bytes, libCan |-> c.libCan, pcm |-> c.pcm,
     writer |-> r]

Exists(path) == path # NoPath /\ fs[path] # NoFile

WritersAt(path) == IF Exists(path) THEN {fs[path].writer} ELSE {}

FmtChunk(nc, rate) == [tag |-> "fmt", nc |-> nc, rate |-> rate, size |-> 16]
DataChunk(size) == [tag |-> "data", nc |-> 0, rate |-> 0, size |-> size]

\* sf.write(output_path, audio, sr): a mono 16-bit WAV file of the signal
WavFileOf(pcm) ==
    MkFile(Serialize([hdr |-> "ok",
                      chunks |-> <<FmtChunk(1, pcm.sr), DataChunk(2 * pcm.len)>>]),
           Libs, pcm)

\* uploads: a WAV recording, a WAV file without samples, a 0-byte file, a
\* compressed recording only librosa decodes, and undecodable bytes
Uploads ==
    { WavFileOf([len |-> 4, sr |-> 8000]),
      WavFileOf([len |-> 0, sr |-> 8000]),
      MkFile(<<>>, {}, NoPcm),
      MkFile(Serialize([hdr |-> "noriff", chunks |-> <<>>]), {"librosa"},
             [len |-> 4, sr |-> 44100]),
      MkFile(Serialize([hdr |-> "noriff", chunks |-> <<>>]), {}, NoPcm) }

ReqStart(ext, upload) ==
    [pc |-> "start", ext |-> ext, upload |-> upload, temp_path |-> NoPath,
     wav_path |-> NoPath, conv |-> NoPcm, audio |-> NoPcm, decoded_len |-> -1,
     decoded_sr |-> 0,
     features |-> <<>>, called |-> {}, touched |-> {}, failed |-> FALSE,
     error |-> "none", status |-> 0]

ReqIdle == [ReqStart("wav", NoFile) EXCEPT !.pc = "idle"]

PredictIdle ==
    /\ fs = [n \in FileNames |-> NoFile]
    /\ req = [r \in Requests |-> ReqIdle]
    /\ svc = [loaded |-> FALSE, n_features_in_ |-> 0]

\* raise inside the try block: control moves to the except clause
Fail(q, msg) ==
    [q EXCEPT !.pc = "cleanup_temp", !.failed = TRUE, !.error = msg]

EmptySignal_Never(audio) == FALSE

\* if len(audio) == 0
EmptySignal(audio) == audio.len = 0

TooShort_Inclusive(audio) == 2 * audio.len <= audio.sr

\* if len(audio) < sr * 0.5
TooShort(audio) == 2 * audio.len < audio.sr

Degenerate_OnlyEmpty(features) == Len(features) = 0

\* if len(features) == 0 or np.all(features == 0)
Degenerate(features) ==
    Len(features) = 0 \/ \A i \in 1..Len(features) : features[i] = 0

CountMismatch_Never(features, scaler) == FALSE

\* if features.shape[1] != scaler.n_features_in_
CountMismatch(features, scaler) == Len(features) # scaler.n_features_in_

\* extract_all_features with every sub-extractor having outcome o
FeaturesOf(o) ==
    AssembleVector([pitch |-> ScalarFeature(o), jitter |-> ScalarFeature(o),
                    shimmer |-> ScalarFeature(o), hnr |-> ScalarFeature(o),
                    mfcc_features |-> ExtractMfccFeatures(o, N_MFCC),
                    spectral_features |-> ExtractSpectralFeatures(o),
                    statistical_features |-> ExtractStatisticalFeatures(o)])

\* ------------------------------------------------------------------------
\* Specification of one call of load_audio_safe
\* ------------------------------------------------------------------------
\* contents the library decoders may accept: a complete WAV file and a
\* compressed (non-RIFF) recording, each decoding to one of these signals
LibPcms ==
    { [len |-> 0, sr |-> 8000], [len |-> 4000, sr |-> 8000],
      [len |-> 600000, sr |-> 44100] }

LibDescs ==
    { [hdr |-> "ok", chunks |-> << [tag |-> "fmt", nc |-> 1, rate |-> 8000,
                                    size |-> 16],
                                  [tag |-> "data", nc |-> 0, rate |-> 0,
                                    size |-> 8] >>],
      [hdr |-> "noriff", chunks |-> <<>>] }

\* predict passes duration=10.0; the default is None
RequestDuration == 10
Durations == {NoDuration, RequestDuration}

InitLoad ==
    /\ \/ \E d \in WavDescs : \E cut \in 0..Len(Serialize(d)) :
            /\ wavInput = [desc |-> d, cut |-> cut]
            /\ file = MkFile(SubSeq(Serialize(d), 1, cut), {}, NoPcm)
            /\ ld = LoadStart(RequestDuration)
       \/ \E d \in LibDescs : \E can \in (SUBSET Libs) \ {{}} :
          \E pcm \in LibPcms :
            /\ wavInput = [desc |-> d, cut |-> Len(Serialize(d))]
            /\ file = MkFile(Serialize(d), can, pcm)
            /\ \E dur \in Durations : ld = LoadStart(dur)
       \/ /\ wavInput = NoWav
          /\ file = NoFile
          /\ ld = LoadStart(RequestDuration)
    /\ fx = FxIdle
    /\ PredictIdle
    /\ DspIdle

LoadAt(pc) ==
    /\ ld.pc = pc
    /\ ld' = LoadStep(file, ld)
    /\ UNCHANGED <<wavInput, file, fx, predVars, dspVars>>

ParseAt(pc) ==
    /\ ld.pc = "parse"
    /\ ld.ws.pc = pc
    /\ ld' = LoadStep(file, ld)
    /\ UNCHANGED <<wavInput, file, fx, predVars, dspVars>>

DoGetSize      == LoadAt("getsize")
DoLibrosa      == LoadAt("librosa")
DoSoundfile    == LoadAt("soundfile")
DoScipy        == LoadAt("scipy")
DoOpenManual   == LoadAt("manual")
DoReadRiff     == ParseAt("riff")
DoReadSize     == ParseAt("size")
DoReadWave     == ParseAt("wave")
DoReadChunk    == ParseAt("chunk")
DoRaise        == LoadAt("raise")

vars == <<wavInput, file, ld, fx, fs, req, svc, pp, pt>>

Next ==
    \/ DoGetSize \/ DoLibrosa \/ DoSoundfile \/ DoScipy \/ DoOpenManual
    \/ DoReadRiff \/ DoReadSize \/ DoReadWave \/ DoReadChunk \/ DoRaise

Spec == InitLoad /\ [][Next]_vars

\* ------------------------------------------------------------------------
\* Properties of load_audio_safe
\* ------------------------------------------------------------------------
IsPrefix(s, t) == Len(s) <= Len(t) /\ s = SubSeq(t, 1, Len(s))

RECURSIVE RunWav(_, _)
RunWav(buf, ws) ==
    IF ws.pc \in {"returned", "failed"} THEN ws
    ELSE RunWav(buf, WavStep(buf, ws))

\* whether a strategy, run on its own, decodes the file
CanSucceed(f, s) ==
    /\ f # NoFile
    /\ IF s = "manual" THEN RunWav(f.bytes, WavStart).pc = "returned"
       ELSE s \in f.libCan

\* C1: the strategies are tried in the order librosa, soundfile, scipy,
\* manual parser, each at most once; the call returns the result of the
\* first strategy that succeeds and invokes none after it; the aggregated
\* error is raised only after all four have failed, so the call succeeds
\* whenever some strategy can decode the file.
C1_FallbackOrder ==
    /\ IsPrefix(ld.tried, Strategies)
    /\ ld.pc = "returned" =>
          /\ ld.tried # <<>>
          /\ ld.result.strategy = ld.tried[Len(ld.tried)]
          /\ CanSucceed(file, ld.result.strategy)
          /\ \A i \in 1..(Len(ld.tried) - 1) : ~CanSucceed(file, ld.tried[i])
    /\ ld.error = "aggregate" =>
          /\ ld.tried = Strategies
          /\ \A i \in 1..4 : ~CanSucceed(file, Strategies[i])
    /\ (LoadDone(ld) /\ \E i \in 1..4 : CanSucceed(file, Strategies[i]))
          => ld.pc = "returned"

\* a mislabeled or library-rejected file decoded by a later strategy
C1_Witness ==
    /\ ld.pc = "returned"
    /\ ld.result.strategy = "scipy"
    /\ ld.tried = <<"librosa", "soundfile", "scipy">>

\* C2: the only error that leaves load_audio_safe is the aggregated one.
C2_OnlyAggregateEscapes == ld.pc = "raised" => ld.error = "aggregate"

\* C3 (as stated): a zero-length file fails without any strategy being
\* invoked.
C3_ZeroLengthInvokesNothing ==
    (file # NoFile /\ file.bytes = <<>>) => ld.tried = <<>>

\* C3 (amended): a zero-length file fails with the aggregated error after
\* each of the four strategies has been invoked once, in order, and failed.
C3_ZeroLengthFailsAfterAll ==
    (file # NoFile /\ file.bytes = <<>> /\ LoadDone(ld)) =>
        /\ ld.pc = "raised"
        /\ ld.error = "aggregate"
        /\ ld.file_size = 0
        /\ ld.tried = Strategies

C3_Witness ==
    /\ file # NoFile
    /\ file.bytes = <<>>
    /\ ld.pc = "raised"
    /\ ld.ws.pc = "failed"

\* ------------------------------------------------------------------------
\* Properties of the manual WAV parser
\* ------------------------------------------------------------------------
\* fmt chunk, then unrecognized chunks, then a data chunk, nothing missing
WellFormed(w) ==
    LET cs == w.desc.chunks
        n  == Len(cs)
    IN  /\ w.desc.hdr = "ok"
        /\ n >= 2
        /\ cs[1].tag = "fmt"
        /\ cs[n].tag = "data"
        /\ \A i \in 2..(n - 1) : cs[i].tag = "LIST"
        /\ w.cut = Len(Serialize(w.desc))

\* offsets at which the chunks of the described file begin
ChunkStarts(d) ==
    { 12 + Len(ChunksBytes(SubSeq(d.chunks, 1, k))) : k \in 0..Len(d.chunks) }

\* C9: on a well-formed file (fmt, unrecognized chunks, 16-bit data) the
\* manual parser returns data_length / (2 * channels) mono samples and the
\* sample rate of the fmt chunk, and every unrecognized chunk is skipped by
\* exactly its payload length, so each chunk header is read at a chunk start.
C9_WellFormedSampleCount ==
    (WellFormed(wavInput) /\ file.libCan = {}) =>
        LET cs == wavInput.desc.chunks
            n  == Len(cs)
        IN  /\ (ld.pc = "parse" /\ ld.ws.pc = "chunk")
                  => ld.ws.pos \in ChunkStarts(wavInput.desc)
            /\ LoadDone(ld) =>
                  /\ ld.pc = "returned"
                  /\ ld.result.strategy = "manual"
                  /\ ld.result.len = cs[n].size \div (2 * cs[1].nc)
                  /\ Len(ld.ws.audio) = cs[n].size \div (2 * cs[1].nc)
                  /\ ld.result.sr = cs[1].rate

C9_Witness ==
    /\ WellFormed(wavInput)
    /\ Len(wavInput.desc.chunks) = 3
    /\ wavInput.desc.chunks[1].nc = 2
    /\ wavInput.desc.chunks[2].size = 3
    /\ ld.pc = "returned"
    /\ ld.result.strategy = "manual"
    /\ ld.result.len = 2

\* C10: the manual parser produces no signal when the RIFF or WAVE magic is
\* absent or when the file ends before a chunk header or the declared
\* chunk_size bytes of a chunk body could be read.
C10_NoSignalFromTruncatedChunk ==
    ld.ws.pc = "returned" =>
        /\ FRead(file.bytes, 0, 4) = RIFF
        /\ FRead(file.bytes, 8, 4) = WAVE
        /\ ld.ws.body + ld.ws.chunk_size <= Len(file.bytes)

\* ------------------------------------------------------------------------
\* Specification of one call of extract_all_features
\* ------------------------------------------------------------------------
ExtractPitch ==
    /\ fx.pc = "pitch"
    /\ \E o \in Outcomes :
          fx' = [fx EXCEPT !.pc = "jitter", !.pitch = ScalarFeature(o),
                           !.raised = Note(fx, "pitch", o)]
    /\ UNCHANGED <<loadVars, predVars, dspVars>>

ExtractJitter ==
    /\ fx.pc = "jitter"
    /\ \E o \in Outcomes :
          fx' = [fx EXCEPT !.pc = "shimmer", !.jitter = ScalarFeature(o),
                           !.raised = Note(fx, "jitter", o)]
    /\ UNCHANGED <<loadVars, predVars, dspVars>>

ExtractShimmer ==
    /\ fx.pc = "shimmer"
    /\ \E o \in Outcomes :
          fx' = [fx EXCEPT !.pc = "hnr", !.shimmer = ScalarFeature(o),
                           !.raised = Note(fx, "shimmer", o)]
    /\ UNCHANGED <<loadVars, predVars, dspVars>>

ExtractHnr ==
    /\ fx.pc = "hnr"
    /\ \E o \in Outcomes :
          fx' = [fx EXCEPT !.pc = "mfcc", !.hnr = ScalarFeature(o),
                           !.raised = Note(fx, "hnr", o)]
    /\ UNCHANGED <<loadVars, predVars, dspVars>>

ExtractMfcc ==
    /\ fx.pc = "mfcc"
    /\ \E o \in Outcomes :
          fx' = [fx EXCEPT !.pc = "spectral",
                           !.mfcc_features = ExtractMfccFeatures(o, N_MFCC),
                           !.raised = Note(fx, "mfcc", o)]
    /\ UNCHANGED <<loadVars, predVars, dspVars>>

ExtractSpectral ==
    /\ fx.pc = "spectral"
    /\ \E o \in Outcomes :
          fx' = [fx EXCEPT !.pc = "statistical",
                           !.spectral_features = ExtractSpectralFeatures(o),
                           !.raised = Note(fx, "spectral", o)]
    /\ UNCHANGED <<loadVars, predVars, dspVars>>

ExtractStatistical ==
    /\ fx.pc = "statistical"
    /\ \E o \in Outcomes :
          fx' = [fx EXCEPT !.pc = "assemble",
                      !.statistical_features = ExtractStatisticalFeatures(o),
                      !.raised = Note(fx, "statistical", o)]
    /\ UNCHANGED <<loadVars, predVars, dspVars>>

\* return np.array(feature_vector), or the zero vector of the outer except
Assemble ==
    /\ fx.pc = "assemble"
    /\ \/ fx' = [fx EXCEPT !.pc = "done", !.feature_vector = AssembleVector(fx)]
       \/ fx' = [fx EXCEPT !.pc = "done", !.feature_vector = ZeroVector,
                           !.raised = fx.raised \cup {"assemble"}]
    /\ UNCHANGED <<loadVars, predVars, dspVars>>

NextFeatures ==
    \/ ExtractPitch \/ ExtractJitter \/ ExtractShimmer \/ ExtractHnr
    \/ ExtractMfcc \/ ExtractSpectral \/ ExtractStatistical \/ Assemble

InitFeatures ==
    /\ wavInput = NoWav
    /\ file = NoFile
    /\ ld = LoadStart(NoDuration)
    /\ fx = FxStart
    /\ PredictIdle
    /\ DspIdle

SpecFeatures == InitFeatures /\ [][NextFeatures]_vars

\* slots of the vector filled by each sub-extractor
Slots(name) ==
    CASE name = "pitch"       -> {1}
      [] name = "jitter"      -> {2}
      [] name = "shimmer"     -> {3}
      [] name = "hnr"         -> {4}
      [] name = "mfcc"        -> 5..17
      [] name = "spectral"    -> 18..25
      [] name = "statistical" -> 26..34
      [] OTHER                -> 1..34

\* C4: the vector returned by extract_all_features has exactly 34 values
\* whichever sub-extractors raised; a sub-extractor that raised fills its own
\* slots (1 each for pitch, jitter, shimmer, hnr; 13 MFCC; 8 spectral;
\* 9 statistics) with 0.0 and moves no other slot.
C4_VectorLength34 ==
    /\ fx.pc \in {"spectral", "statistical", "assemble", "done"}
          => Len(fx.mfcc_features) = 13
    /\ fx.pc = "done" =>
          /\ Len(fx.feature_vector) = 34
          /\ \A name \in fx.raised :
                \A i \in Slots(name) : fx.feature_vector[i] = 0

C4_Witness ==
    /\ fx.pc = "done"
    /\ fx.raised = {"mfcc", "statistical"}
    /\ fx.feature_vector[1] = 1
    /\ fx.feature_vector[18] = 1

\* ------------------------------------------------------------------------
\* Specification of concurrent /predict requests
\* ------------------------------------------------------------------------
Others == <<wavInput, file, ld, fx, svc, pp, pt>>

Step(r, pc, q) ==
    /\ req[r].pc = pc
    /\ req' = [req EXCEPT ![r] = q]

\* model/scaler check, request.files check, temp_path
Begin(r) ==
    LET q == req[r]
    IN  /\ Step(r, "start",
              IF ~svc.loaded
              THEN [q EXCEPT !.pc = "done", !.status = 500,
                             !.error = "model_not_loaded"]
              ELSE IF q.upload = NoFile
              THEN [q EXCEPT !.pc = "done", !.status = 400,
                             !.error = "no_audio"]
              ELSE [q EXCEPT !.pc = "save", !.temp_path = TempPath(q.ext)])
        /\ UNCHANGED <<fs, Others>>

\* audio_file.save(temp_path)
Save(r) ==
    LET q == req[r]
    IN  /\ Step(r, "save",
              [q EXCEPT !.pc = "stat",
                        !.touched = q.touched \cup WritersAt(q.temp_path)])
        /\ fs' = [fs EXCEPT ![q.temp_path] = Stored(q.upload, r)]
        /\ UNCHANGED Others

\* os.path.getsize(temp_path) in the print; wav_path = None; extension test
Stat(r) ==
    LET q == req[r]
    IN  /\ Step(r, "stat",
              IF ~Exists(q.temp_path) THEN Fail(q, "OSError")
              ELSE [q EXCEPT !.wav_path = NoPath,
                             !.pc = IF q.ext \in {"wav", "wave"}
                                    THEN "load" ELSE "conv_load"])
        /\ UNCHANGED <<fs, Others>>

\* convert_to_wav: librosa.load(input_path, sr=None)
ConvLoad(r) ==
    LET q == req[r]
        f == IF Exists(q.temp_path) THEN fs[q.temp_path] ELSE NoFile
    IN  /\ Step(r, "conv_load",
              IF Decodes(f, "librosa")
              THEN [q EXCEPT !.pc = "conv_write", !.conv = f.pcm,
                        !.touched = q.touched \cup WritersAt(q.temp_path)]
              ELSE [q EXCEPT !.pc = "load", !.wav_path = NoPath,
                        !.touched = q.touched \cup WritersAt(q.temp_path)])
        /\ UNCHANGED <<fs, Others>>

\* convert_to_wav: sf.write(output_path, audio, sr); return output_path
ConvWrite(r) ==
    LET q   == req[r]
        out == WavPathOf(q.temp_path)
    IN  /\ Step(r, "conv_write",
              [q EXCEPT !.pc = "conv_check", !.wav_path = out,
                        !.touched = q.touched \cup WritersAt(out)])
        /\ fs' = [fs EXCEPT ![out] = Stored(WavFileOf(q.conv), r)]
        /\ UNCHANGED Others

\* if wav_path and os.path.exists(wav_path): temp_path = wav_path
ConvCheck(r) ==
    LET q == req[r]
    IN  /\ Step(r, "conv_check",
              IF Exists(q.wav_path)
              THEN [q EXCEPT !.pc = "load", !.temp_path = q.wav_path]
              ELSE [q EXCEPT !.pc = "load"])
        /\ UNCHANGED <<fs, Others>>

\* audio, sr = load_audio_safe(temp_path, sr=None, duration=10.0)
Load(r) ==
    LET q  == req[r]
        f  == IF Exists(q.temp_path) THEN fs[q.temp_path] ELSE NoFile
        st == RunLoad(f, LoadStart(RequestDuration))
    IN  /\ Step(r, "load",
              IF st.pc = "raised"
              THEN [Fail(q, st.error) EXCEPT
                        !.touched = q.touched \cup WritersAt(q.temp_path)]
              ELSE [q EXCEPT !.pc = "check_empty",
                        !.audio = [len |-> st.result.len, sr |-> st.result.sr],
                        !.decoded_len = st.result.len,
                        !.decoded_sr = st.result.sr,
                        !.touched = q.touched \cup WritersAt(q.temp_path)])
        /\ UNCHANGED <<fs, Others>>

\* if len(audio) == 0: raise
CheckEmpty(r) ==
    LET q == req[r]
    IN  /\ Step(r, "check_empty",
              IF EmptySignal(q.audio) THEN Fail(q, "empty_signal")
              ELSE [q EXCEPT !.pc = "preprocess"])
        /\ UNCHANGED <<fs, Others>>

\* audio, sr = preprocess_audio(audio, sr, target_sr=22050)
Preprocess(r) ==
    LET q == req[r]
    IN  /\ q.pc = "preprocess"
        /\ \E a \in PreprocessOutcomes(q.audio, TARGET_SR) :
              Step(r, "preprocess",
                  [q EXCEPT !.pc = "check_short", !.audio = a,
                            !.called = q.called \cup {"preprocess"}])
        /\ UNCHANGED <<fs, Others>>

\* if len(audio) < sr * 0.5: raise
CheckShort(r) ==
    LET q == req[r]
    IN  /\ Step(r, "check_short",
              IF TooShort(q.audio) THEN Fail(q, "too_short")
              ELSE [q EXCEPT !.pc = "extract"])
        /\ UNCHANGED <<fs, Others>>

\* features = extract_all_features(audio, sr)
Extract(r) ==
    LET q == req[r]
    IN  /\ q.pc = "extract"
        /\ \E o \in Outcomes :
              Step(r, "extract",
                  [q EXCEPT !.pc = "check_features", !.features = FeaturesOf(o),
                            !.called = q.called \cup {"extract"}])
        /\ UNCHANGED <<fs, Others>>

\* if len(features) == 0 or np.all(features == 0): raise
CheckFeatures(r) ==
    LET q == req[r]
    IN  /\ Step(r, "check_features",
              IF Degenerate(q.features) THEN Fail(q, "no_valid_features")
              ELSE [q EXCEPT !.pc = "check_count"])
        /\ UNCHANGED <<fs, Others>>

\* if features.shape[1] != scaler.n_features_in_: raise
CheckCount(r) ==
    LET q == req[r]
    IN  /\ Step(r, "check_count",
              IF CountMismatch(q.features, svc) THEN Fail(q, "feature_mismatch")
              ELSE [q EXCEPT !.pc = "scale"])
        /\ UNCHANGED <<fs, Others>>

\* features_scaled = scaler.transform(features)
Scale(r) ==
    LET q == req[r]
    IN  /\ Step(r, "scale",
              IF Len(q.features) # svc.n_features_in_
              THEN [Fail(q, "scaler_error") EXCEPT
                        !.called = q.called \cup {"scaler"}]
              ELSE [q EXCEPT !.pc = "classify",
                             !.called = q.called \cup {"scaler"}])
        /\ UNCHANGED <<fs, Others>>

\* model.predict(features_scaled), model.predict_proba(features_scaled)
Classify(r) ==
    LET q == req[r]
    IN  /\ Step(r, "classify",
              [q EXCEPT !.pc = "cleanup_temp",
                        !.called = q.called \cup {"model"}])
        /\ UNCHANGED <<fs, Others>>

\* if temp_path and os.path.exists(temp_path): os.remove(temp_path)
CleanupTemp(r) ==
    LET q == req[r]
    IN  /\ Step(r, "cleanup_temp",
              [q EXCEPT !.pc = "cleanup_wav",
                        !.touched = q.touched \cup WritersAt(q.temp_path)])
        /\ fs' = IF Exists(q.temp_path)
                 THEN [fs EXCEPT ![q.temp_path] = NoFile] ELSE fs
        /\ UNCHANGED Others

\* success: if wav_path and exists and wav_path != temp_path: os.remove
\* except:  if wav_path and exists: os.remove; then return the response
CleanupWav(r) ==
    LET q == req[r]
        remove == Exists(q.wav_path) /\ (q.failed \/ q.wav_path # q.temp_path)
    IN  /\ Step(r, "cleanup_wav",
              [q EXCEPT !.pc = "done",
                        !.status = IF q.failed THEN 500 ELSE 200,
                        !.touched = IF remove
                                    THEN q.touched \cup WritersAt(q.wav_path)
                                    ELSE q.touched])
        /\ fs' = IF remove THEN [fs EXCEPT ![q.wav_path] = NoFile] ELSE fs
        /\ UNCHANGED Others

NextPredict ==
    \E r \in Requests :
        \/ Begin(r) \/ Save(r) \/ Stat(r) \/ ConvLoad(r) \/ ConvWrite(r)
        \/ ConvCheck(r) \/ Load(r) \/ CheckEmpty(r) \/ Preprocess(r)
        \/ CheckShort(r) \/ Extract(r) \/ CheckFeatures(r) \/ CheckCount(r)
        \/ Scale(r) \/ Classify(r) \/ CleanupTemp(r) \/ CleanupWav(r)

\* the scaler was fitted on 34 features by train_model.py, or on the 22
\* features of the UCI data set
ScalerWidths == {34, 22}

InitPredict ==
    /\ wavInput = NoWav
    /\ file = NoFile
    /\ ld = LoadStart(NoDuration)
    /\ fx = FxIdle
    /\ DspIdle
    /\ fs = [n \in FileNames |-> NoFile]
    /\ svc \in [loaded : BOOLEAN, n_features_in_ : ScalerWidths]
    /\ req \in [Requests ->
                  { ReqStart(e, u) : e \in Extensions,
                                     u \in Uploads \cup {NoFile} }]

SpecPredict == InitPredict /\ [][NextPredict]_vars

\* ------------------------------------------------------------------------
\* Properties of predict
\* ------------------------------------------------------------------------
InExit(q) == q.pc \in {"cleanup_temp", "cleanup_wav", "done"}

\* C5: when decoding succeeds with zero samples the request fails with the
\* empty-signal error, and preprocessing, feature extraction, the scaler and
\* the classifier are never invoked for it.
C5_EmptySignalRejected ==
    \A r \in Requests :
        req[r].decoded_len = 0 =>
            /\ req[r].called = {}
            /\ InExit(req[r]) =>
                  (req[r].failed /\ req[r].error = "empty_signal")
            /\ req[r].pc = "done" => req[r].status = 500

C5_Witness ==
    \E r \in Requests :
        /\ req[r].pc = "done"
        /\ req[r].decoded_len = 0
        /\ req[r].error = "empty_signal"

\* C6: the scaler and the classifier are invoked only with a feature vector
\* whose length equals scaler.n_features_in_; on a mismatch the request
\* fails with the feature-mismatch error and neither of them is called.
C6_LengthCheckedBeforeScaler ==
    \A r \in Requests :
        /\ (req[r].called \cap {"scaler", "model"} # {})
              => Len(req[r].features) = svc.n_features_in_
        /\ ( /\ InExit(req[r])
             /\ "extract" \in req[r].called
             /\ ~Degenerate(req[r].features)
             /\ Len(req[r].features) # svc.n_features_in_ )
              => /\ req[r].error = "feature_mismatch"
                 /\ req[r].called \cap {"scaler", "model"} = {}

C6_Witness ==
    \E r \in Requests :
        /\ req[r].pc = "done"
        /\ req[r].error = "feature_mismatch"
        /\ Len(req[r].features) = 34
        /\ svc.n_features_in_ = 22
        /\ "scaler" \notin req[r].called

\* C7: when a request has returned, no temporary file it wrote (the saved
\* upload or the converted .wav) is left in the working directory.
C7_TempFilesRemoved ==
    \A r \in Requests :
        req[r].pc = "done" =>
            \A n \in FileNames : fs[n] = NoFile \/ fs[n].writer # r

\* C8: no request reads, overwrites or deletes a temporary file written by
\* another request.
C8_RequestsIndependent ==
    \A r \in Requests : req[r].touched \subseteq {r}

\* ------------------------------------------------------------------------
\* Specification of one call of preprocess_audio
\* ------------------------------------------------------------------------
SignalLengths == {0, 1, 4000, 11024, 11025, 30000}
SampleRates == {8000, 22050, 44100}
TargetRates == {TARGET_SR, 11025}
Peaks == {"zero", "unit", "other"}

PpRest == <<wavInput, file, ld, fx, fs, req, svc, pt>>

DoResample ==
    /\ pp.pc = "resample"
    /\ \E ok \in BOOLEAN : pp' = PpResample(pp, ok)
    /\ UNCHANGED PpRest

DoNormalize ==
    /\ pp.pc = "normalize"
    /\ \E ok \in BOOLEAN : pp' = PpNormalize(pp, ok)
    /\ UNCHANGED PpRest

DoTrim ==
    /\ pp.pc = "trim"
    /\ \E ok \in BOOLEAN : \E t \in TrimLengths(pp.audio.len) :
          pp' = PpTrim(pp, ok, t)
    /\ UNCHANGED PpRest

DoPad ==
    /\ pp.pc = "pad"
    /\ pp' = PpPad(pp)
    /\ UNCHANGED PpRest

NextPreprocess == DoResample \/ DoNormalize \/ DoTrim \/ DoPad

InitPreprocess ==
    /\ wavInput = NoWav
    /\ file = NoFile
    /\ ld = LoadStart(NoDuration)
    /\ fx = FxIdle
    /\ PredictIdle
    /\ pt = PtIdle
    /\ \E n \in SignalLengths : \E r \in SampleRates : \E k \in Peaks :
       \E t \in TargetRates :
          pp = PpStart([len |-> n, sr |-> r], k, t)

SpecPreprocess == InitPreprocess /\ [][NextPreprocess]_vars

\* C11: preprocess_audio never stops early: whichever stages raise inside
\* their try block, all four stages run in order; a failed resampling keeps
\* the input samples and the input rate, a failed trimming keeps the
\* untrimmed signal, a failed normalization keeps the peak.
C11_StagesDegradeToNoOp ==
    /\ pp.pc \in {"idle", "resample", "normalize", "trim", "pad", "done"}
    /\ pp.pc = "done" =>
          /\ pp.ran = Stages
          /\ "resample" \in pp.raised =>
                (pp.audio.sr = pp.input.sr /\ pp.len_resampled = pp.input.len)
          /\ "resample" \notin pp.raised => pp.audio.sr = pp.target_sr
          /\ "normalize" \in pp.raised => pp.peak = pp.peak_in
          /\ "trim" \in pp.raised => pp.len_trimmed = pp.len_resampled

C11_Witness ==
    /\ pp.pc = "done"
    /\ pp.raised = {"resample", "trim"}
    /\ pp.input.sr = 44100
    /\ pp.audio.sr = 44100
    /\ pp.pad > 0

\* C12: the signal returned by preprocess_audio has at least
\* int(target_sr * 0.5) samples: a shorter result of trimming is extended to
\* exactly that length by zeros appended after the existing samples, and a
\* result that is long enough gets no padding.
C12_MinimumLength ==
    pp.pc = "done" =>
        /\ 2 * pp.audio.len >= pp.target_sr - 1
        /\ pp.audio.len = pp.len_trimmed + pp.pad
        /\ pp.pad >= 0
        /\ 2 * pp.len_trimmed >= pp.target_sr - 1 => pp.pad = 0
        /\ pp.pad > 0 => 2 * pp.audio.len \in {pp.target_sr - 1, pp.target_sr}

C12_Witness ==
    /\ pp.pc = "done"
    /\ pp.target_sr = TARGET_SR
    /\ pp.len_trimmed = 11024
    /\ pp.pad = 1
    /\ pp.audio.len = 11025

\* C13: whichever strategy decodes the file, a call with duration = 10
\* returns at most 10 seconds of audio (10 * sample_rate samples).
C13_DurationClampBoundsDecode ==
    (ld.pc = "returned" /\ ld.duration = RequestDuration) =>
        ld.result.len <= ld.duration * ld.result.sr

\* C14: a degenerate feature vector (empty, or 34 values all exactly 0.0)
\* makes predict fail with the extraction error before scaling; the scaler
\* and the classifier are never invoked on such a vector.
C14_DegenerateVectorRejected ==
    \A r \in Requests :
        LET zero == \A i \in 1..Len(req[r].features) : req[r].features[i] = 0
        IN  /\ (req[r].called \cap {"scaler", "model"} # {}) => ~zero
            /\ ("extract" \in req[r].called /\ zero /\ InExit(req[r])) =>
                  /\ req[r].failed
                  /\ req[r].error = "no_valid_features"
                  /\ req[r].called \cap {"scaler", "model"} = {}

C14_Witness ==
    \E r \in Requests :
        /\ req[r].pc = "done"
        /\ req[r].status = 500
        /\ req[r].error = "no_valid_features"
        /\ req[r].features = ZeroVector
        /\ svc.n_features_in_ = 34

\* C16: after preprocessing, the too-short rejection never fires when the
\* signal is at the target rate; it fires only when resampling failed (the
\* rate is still the decoded rate) and that rate is above the target rate,
\* and then a signal padded to the minimum length is rejected.
C16_TooShortOnlyAfterFailedResample ==
    \A r \in Requests :
        LET q == req[r]
            checked == "preprocess" \in q.called /\ q.pc # "check_short"
        IN  /\ q.error = "too_short" =>
                  /\ q.audio.sr = q.decoded_sr
                  /\ q.audio.sr > TARGET_SR
            /\ (checked /\ q.audio.sr = TARGET_SR) => q.error # "too_short"
            /\ ( /\ checked
                 /\ q.audio.sr > TARGET_SR
                 /\ q.audio.len = TARGET_SR \div 2 )
                  => q.error = "too_short"

C16_Witness ==
    \E r \in Requests :
        /\ req[r].pc = "done"
        /\ req[r].error = "too_short"
        /\ req[r].audio = [len |-> 11025, sr |-> 44100]
        /\ req[r].decoded_len = 4

\* ------------------------------------------------------------------------
\* Specification of pitch and jitter extraction on one signal
\* ------------------------------------------------------------------------
PtRest == <<wavInput, file, ld, fx, fs, req, svc, pp>>

PitchLengths ==
    {0, FRAME_LENGTH - 1} \cup
    { FRAME_LENGTH + k * HOP_LENGTH + j :
        k \in 0..(MaxFrames - 1), j \in {0, HOP_LENGTH - 1} }

\* frames = librosa.util.frame(audio, frame_length, hop_length)
DoFrame ==
    /\ pt.pc = "frame"
    /\ pt' = IF FrameCount(pt.n) = 0
             THEN [pt EXCEPT !.pc = "pitch", !.f0 = <<0>>]
             ELSE [pt EXCEPT !.pc = "loop", !.nframes = FrameCount(pt.n)]
    /\ UNCHANGED PtRest

\* one iteration of "for frame in frames.T"
DoFrameF0 ==
    /\ pt.pc = "loop"
    /\ pt.i < pt.nframes
    /\ \E o \in FrameOutcomes(pt.sr) :
          pt' = [pt EXCEPT !.i = pt.i + 1, !.log = Append(pt.log, o),
                           !.f0_values = pt.f0_values \o FrameF0(pt.sr, o)]
    /\ UNCHANGED PtRest

\* end of the loop: the return statement of _extract_f0_cached
DoReturnF0 ==
    /\ pt.pc = "loop"
    /\ pt.i = pt.nframes
    /\ pt' = [pt EXCEPT !.pc = "pitch", !.f0 = F0Result(pt.f0_values)]
    /\ UNCHANGED PtRest

\* extract_pitch
DoPitch ==
    /\ pt.pc = "pitch"
    /\ pt' = [pt EXCEPT !.pc = "jitter", !.pitch = PitchOf(pt.f0)]
    /\ UNCHANGED PtRest

\* extract_jitter
DoJitter ==
    /\ pt.pc = "jitter"
    /\ pt' = [pt EXCEPT !.pc = "done", !.jitter = JitterOf(pt.f0)]
    /\ UNCHANGED PtRest

NextPitch == DoFrame \/ DoFrameF0 \/ DoReturnF0 \/ DoPitch \/ DoJitter

InitPitch ==
    /\ wavInput = NoWav
    /\ file = NoFile
    /\ ld = LoadStart(NoDuration)
    /\ fx = FxIdle
    /\ PredictIdle
    /\ pp = PpIdle
    /\ \E n \in PitchLengths : \E r \in SampleRates : pt = PtStart(n, r)

SpecPitch == InitPitch /\ [][NextPitch]_vars

\* the estimates of the voiced frames, in frame order
Voiced(sr, o) ==
    /\ o.kind = "peak"
    /\ 50 * (o.idx + sr \div 400) < sr
    /\ sr < 400 * (o.idx + sr \div 400)

RECURSIVE VoicedEstimates(_, _)
VoicedEstimates(sr, log) ==
    IF log = <<>> THEN <<>>
    ELSE (IF Voiced(sr, Head(log))
          THEN <<(sr * 1000) \div (Head(log).idx + sr \div 400)>> ELSE <<>>)
         \o VoicedEstimates(sr, Tail(log))

\* C15: pitch is 0.0 when no frame is voiced (also when the signal is
\* shorter than one 2048-sample frame), jitter is 0.0 with fewer than two
\* voiced frames, and with two or more voiced frames pitch is the mean of
\* exactly the accepted estimates, each between 50 and 400 Hz.
C15_PitchAndJitterDefaults ==
    pt.pc = "done" =>
        LET est == VoicedEstimates(pt.sr, pt.log)
        IN  /\ Len(est) = 0 => pt.pitch = 0
            /\ pt.n < 2048 => (Len(est) = 0 /\ pt.pitch = 0 /\ pt.jitter = 0)
            /\ Len(est) < 2 => pt.jitter = 0
            /\ Len(est) >= 2 =>
                  /\ pt.f0 = est
                  /\ pt.pitch = SumSeq(est) \div Len(est)
                  /\ \A i \in 1..Len(est) :
                        est[i] >= 50000 /\ est[i] < 400000

C15_Witness ==
    /\ pt.pc = "done"
    /\ Len(pt.log) = 3
    /\ Len(VoicedEstimates(pt.sr, pt.log)) = 2
    /\ pt.pitch > 50000
    /\ pt.jitter > 0

\* ------------------------------------------------------------------------
\* Termination of the chunk loop
\* ------------------------------------------------------------------------
InChunkLoop == ld.pc = "parse" /\ ld.ws.pc = "chunk"

\* an iteration that stays in the loop read a whole header and moved the
\* cursor forward by at least its 8 bytes; as the cursor only grows and a
\* further iteration needs 8 readable bytes, a file of n bytes allows at most
\* n \div 8 iterations
ChunkLoopProgress ==
    InChunkLoop =>
        \/ ld'.pc # "parse"
        \/ /\ ld'.ws.pc = "chunk"
           /\ ld'.ws.pos >= ld.ws.pos + 8
           /\ ld.ws.pos + 8 <= Len(file.bytes)

\* the loop was entered and has ended
LoopFailed == ld.ws.pc = "failed" /\ ld.ws.pos >= 12
LoopReturned == ld.ws.pc = "returned"

HeaderUnreadable == ld.ws.pos + 8 > Len(file.bytes)

ReturnedAtDataChunk ==
    LoopReturned => FRead(file.bytes, ld.ws.body - 8, 4) = DATA

\* a fmt payload of fewer than 8 readable bytes
BadFmtPayload ==
    /\ FRead(file.bytes, ld.ws.pos, 4) = FMT
    /\ Len(FRead(file.bytes, ld.ws.pos + 8,
                 LittleEndian(FRead(file.bytes, ld.ws.pos + 4, 4)))) < 8

\* a data payload that is not a whole number of 16-bit frames
BadDataPayload ==
    LET n == Len(FRead(file.bytes, ld.ws.pos + 8,
                       LittleEndian(FRead(file.bytes, ld.ws.pos + 4, 4))))
    IN  /\ FRead(file.bytes, ld.ws.pos, 4) = DATA
        /\ \/ n % 2 # 0
           \/ ld.ws.num_channels > 1 /\ (n \div 2) % ld.ws.num_channels # 0

\* C17 (as stated): the chunk loop terminates, each iteration consuming at
\* least the 8 header bytes, and it ends either by returning at the first
\* data chunk or by failing once a header can no longer be read.
C17_EndsAtDataOrUnreadableHeader ==
    /\ [](ReturnedAtDataChunk /\ (LoopFailed => HeaderUnreadable))
    /\ [][ChunkLoopProgress]_vars

\* C17 (amended): the chunk loop terminates, each iteration consuming at
\* least the 8 header bytes; it ends by returning at the first data chunk,
\* or by failing when a header can no longer be read, when a fmt payload
\* has fewer than 8 readable bytes, or when the data payload read is not a
\* whole number of 16-bit frames.
C17_ChunkLoopTerminates ==
    /\ [](/\ ReturnedAtDataChunk
          /\ LoopFailed =>
                (HeaderUnreadable \/ BadFmtPayload \/ BadDataPayload))
    /\ [][ChunkLoopProgress]_vars

\* a chunk of size 0 was passed and a declared size led past the end
C17_Witness ==
    /\ LoopFailed
    /\ ld.ws.pos > Len(file.bytes)
    /\ Len(wavInput.desc.chunks) >= 2
    /\ wavInput.desc.chunks[1].tag = "LIST"
    /\ wavInput.desc.chunks[1].size = 0
    /\ wavInput.desc.chunks[2].tag = "LIST"

====
